---- MODULE Spec2Model ----
(***************************************************************************)
(* The streaming engine of oto: fn player() of src/main.rs, with the       *)
(* decoder (src/decoder.rs), the device wrapper (src/player.rs) and the    *)
(* command channel (src/event.rs).  One action per step of the loop body.  *)
(*                                                                         *)
(* Samples are numbered 1, 2, 3, ... in the order decode() produces them,  *)
(* so the device's input can be compared with the decoder's output.        *)
(* The sound device is alsa::PCM: its state machine and the validity of    *)
(* each call in each state follow snd_pcm_* (pause needs Running/Paused,   *)
(* start needs Prepared, prepare leaves any stopped state for Prepared,    *)
(* a write needs Prepared/Running/Paused); every call may also fail with   *)
(* a hardware error.                                                       *)
(***************************************************************************)
EXTENDS Integers, Sequences, FiniteSets, TLC

\* ---------------------------------------------------------------- bounds
\* RING_BUF_ALLOC (main.rs:32) scaled down to a size TLC can enumerate
RingCap == 2
\* samples the opened file holds at most
MaxSamples == 3
\* frames one decode() call yields at most
MaxChunk == 3
\* commands the controller sends at most
MaxCmds == 2

\* ------------------------------------------------------------ data model
\* Option::None, and the absence of a record in the history variables
None == [none |-> TRUE]

Modes == {"PCM", "DSD"}

\* MediaSpec (media.rs:49-54): u32 fields, kept to 0, mono, stereo and to 0
\* and one real rate
Channels == {0, 1, 2}

Rates == {0, 44100}

MediaSpec == [sample_rate : Rates, channel : Channels, mode : Modes]

\* what spec() answers for a file that opened.  DsdReader::new takes channel
\* num and sampling frequency from the header as they are (decoder.rs:308-312);
\* PcmDecoder::spec passes on the parameters symphonia found for a decodable
\* track (decoder.rs:157-164), taken here to be positive.
SourceSpecs ==
  {s \in MediaSpec : s.mode = "PCM" => s.channel > 0 /\ s.sample_rate > 0}

\* PlayerCommand (event.rs:3-8)
PlayerCommand ==
  [type : {"Pause", "Resume"}] \cup [type : {"Play"}, spec : MediaSpec]

\* the spec the controller switches to: mono PCM, the spec of the file when
\* that is mono PCM and another channel count or mode for every other file
PlaySpecs == {[sample_rate |-> 44100, channel |-> 1, mode |-> "PCM"]}

\* the commands the controller sends
Commands ==
  [type : {"Pause", "Resume"}] \cup [type : {"Play"}, spec : PlaySpecs]

\* alsa::pcm::State values the engine can meet after the device is opened
DevStates == {"Closed", "Setup", "Prepared", "Running", "XRun", "Paused"}

Min(a, b) == IF a < b THEN a ELSE b

Range(s) == {s[i] : i \in 1..Len(s)}

IsPrefix(s, t) == Len(s) <= Len(t) /\ s = SubSeq(t, 1, Len(s))

\* the sequence <<a, a+1, ..., b>>
Iota(a, b) == [i \in 1..(b - a + 1) |-> a + i - 1]

\* -------------------------------------------------------- ring buffer
\* LocalRb<Heap<i32>> split into prod/cons (main.rs:52-53).  buf holds the
\* occupied items oldest first, head is the read index in the backing store.
RbNew == [buf |-> <<>>, head |-> 0]

RbLen(rb) == Len(rb.buf)

\* prod.vacant_len()
RbVacant(rb) == RingCap - Len(rb.buf)

\* cons.as_slices(): the items up to the end of the store, then the wrapped ones
RbRight(rb) == SubSeq(rb.buf, 1, Min(Len(rb.buf), RingCap - rb.head))

RbLeft(rb) == SubSeq(rb.buf, Len(RbRight(rb)) + 1, Len(rb.buf))

\* cons.skip(n): drops at most the occupied items
RbSkip(rb, n) ==
  LET k == Min(n, Len(rb.buf))
  IN  [buf |-> SubSeq(rb.buf, k + 1, Len(rb.buf)), head |-> (rb.head + k) % RingCap]

\* prod.push_iter(items): stops taking items when the buffer is full
RbPush(rb, items) ==
  [rb EXCEPT !.buf = @ \o SubSeq(items, 1, Min(RbVacant(rb), Len(items)))]

\* ------------------------------------------------------------------ state
VARIABLES
  pc,        \* the statement of player() the engine is at
  srcSpec,   \* what spec() of the opened file answers: a MediaSpec or None
  produced,  \* samples decode() has appended so far
  spec,      \* spec: Rc<RefCell<MediaSpec>> (main.rs:66)
  channel,   \* channel: usize captured by write_io (main.rs:59)
  ring,      \* rb / prod / cons (main.rs:52-53)
  temp,      \* temp_buf (main.rs:54)
  eof,       \* eof (main.rs:99)
  ioOk,      \* whether the typed I/O handle of the current mode is Some(Ok(_))
  rx,        \* commands in the channel, oldest first (main.rs:38)
  devState,  \* player.state()
  devSpec,   \* the MediaSpec the device is configured with, or None
  received,  \* every sample writei accepted, in order
  fail,      \* the error player() returned, or None
  sent,      \* history: commands the controller submitted, in order
  applied,   \* history: commands the engine dequeued, in order
  it,        \* history of the current iteration
  hist       \* history of the run

vars == <<pc, srcSpec, produced, spec, channel, ring, temp, eof, ioOk, rx,
          devState, devSpec, received, fail, sent, applied, it, hist>>

engine == <<spec, channel, ring, temp, eof, ioOk>>

device == <<devState, devSpec, received>>

\* pc values inside the loop of main.rs:101-182
LoopPcs == {"poll", "wait", "check", "flush", "move", "decide", "decode", "start"}

Stopped == {"done", "failed", "panicked"}

\* it: deq commands dequeued in this iteration, waited whether wait() returned,
\*     cmd the command type dequeued in this iteration, prev that of the one before
ItInit == [deq |-> 0, waited |-> FALSE, cmd |-> "none", prev |-> "none"]

\* the back edge of the loop: a new iteration begins
NewIter(i) == [deq |-> 0, waited |-> FALSE, cmd |-> "none", prev |-> i.cmd]

\* hist: touched  a device operation was attempted
\*       drains   calls of drain()
\*       rAtDrain Len(received) when drain() was called
\*       plays    Play commands applied
\*       mark     Len(received) when the last Play was applied
\*       pmark    produced when the last Play was applied
\*       fatal    decode() has returned DecoderError::Raw
\*       dAfter   decode() was called after that
\*       pause    None, or the buffers when the pending Pause was applied
\*       ign      the last call of decode() returned DecoderError::Ignored
HistInit ==
  [touched |-> FALSE, drains |-> 0, rAtDrain |-> 0, plays |-> 0,
   mark |-> 0, pmark |-> 0, fatal |-> FALSE, dAfter |-> FALSE, pause |-> None,
   ign |-> FALSE]

Init ==
  /\ pc = "open"
  /\ srcSpec \in SourceSpecs \cup {None}
  /\ produced = 0
  /\ spec = None
  /\ channel = 0
  /\ ring = RbNew
  /\ temp = <<>>
  /\ eof = FALSE
  /\ ioOk = FALSE
  /\ rx = <<>>
  /\ devState = "Closed"
  /\ devSpec = None
  /\ received = <<>>
  /\ fail = None
  /\ sent = <<>>
  /\ applied = <<>>
  /\ it = ItInit
  /\ hist = HistInit

\* `?` on an Err: player() returns it
Fails(op, why) ==
  /\ pc' = "failed"
  /\ fail' = [op |-> op, why |-> why]

\* ---------------------------------------------------------------- startup
\* mutant: an unresolved spec replaced by a default instead of being refused
SpecOrDefault(s) ==
  IF s = None THEN [sample_rate |-> 44100, channel |-> 2, mode |-> "PCM"] ELSE s

\* dm.spec().ok_or(anyhow!("unknown codec")) (main.rs:58)
SpecOrErr(s) == s

\* main.rs:56-59
OpenSource ==
  /\ pc = "open"
  /\ \/ /\ Fails("open", "io")
        /\ UNCHANGED <<spec, channel>>
     \/ LET r == SpecOrErr(srcSpec)
        IN  IF r = None
            THEN /\ Fails("spec", "unknown codec")
                 /\ UNCHANGED <<spec, channel>>
            ELSE /\ spec' = r
                 /\ channel' = r.channel
                 /\ pc' = "device"
                 /\ UNCHANGED fail
  /\ UNCHANGED <<srcSpec, produced, ring, temp, eof, ioOk, rx, device, sent,
                 applied, it, hist>>

\* player.io_i32() / player.io_u32(): a Result kept as it is (main.rs:63-64)
IoResults == BOOLEAN

\* set_hw_param (player.rs:28-54): set_channels refuses 0 channels, while
\* set_rate(.., ValueOr::Nearest) settles on the nearest rate the device has
HwParamsOk(ms) == ms.channel > 0

\* main.rs:61-64: Player::new (player.rs:20-26), Player::init (player.rs:76-86)
OpenDevice ==
  /\ pc = "device"
  /\ hist' = [hist EXCEPT !.touched = TRUE]
  /\ \/ /\ Fails("new", "hw")
        /\ UNCHANGED <<ioOk, device>>
     \/ /\ Fails("init", "hw")
        /\ devState' = "Setup"
        /\ UNCHANGED <<ioOk, devSpec, received>>
     \/ /\ HwParamsOk(spec)
        /\ devState' = "Prepared"
        /\ devSpec' = spec
        /\ ioOk' \in IoResults
        /\ pc' = "poll"
        /\ UNCHANGED <<fail, received>>
  /\ UNCHANGED <<srcSpec, produced, spec, channel, ring, temp, eof, rx, sent,
                 applied, it>>

\* ----------------------------------------------------------------- device
\* snd_pcm_pause: pushing needs Running, releasing needs Paused
PauseValid(st, flag) == IF flag THEN st = "Running" ELSE st = "Paused"

\* snd_pcm_start needs Prepared
StartValid(st) == st = "Prepared"

\* snd_pcm_writei needs Prepared, Running or Paused
Writable(st) == st \in {"Prepared", "Running", "Paused"}

\* a Prepared device starts by itself once the start threshold is reached
\* (pcm_sw_param, player.rs:64-70)
AfterWrite(st, frames) ==
  IF st = "Prepared" /\ frames > 0 THEN {"Prepared", "Running"} ELSE {st}

\* write_io(buf) with the device in state st (main.rs:73-97): the outcomes
\* [ok, ret, acc, st]: whether it returned Ok, the count it returned, the
\* samples the device accepted and the device's state afterwards.  writei
\* takes whole frames of the configured channel count, any number from 0 to
\* what buf holds; write_io multiplies the frames by the captured `channel`.
WriteIo(buf, st) ==
  IF ~ioOk
  THEN {[ok |-> TRUE, ret |-> 0, acc |-> <<>>, st |-> st]}
  ELSE LET offered == Len(buf) \div devSpec.channel
           frames == IF Writable(st) \/ offered = 0 THEN 0..offered ELSE {}
       IN  {[ok |-> FALSE, ret |-> 0, acc |-> <<>>, st |-> st]} \cup
           UNION {{[ok |-> TRUE, ret |-> f * channel,
                    acc |-> SubSeq(buf, 1, f * devSpec.channel), st |-> s2]
                   : s2 \in AfterWrite(st, f)} : f \in frames}

\* ------------------------------------------------------------ command poll
\* mutant: the newest command is taken first
RecvNewest(q) == [cmd |-> q[Len(q)], rest |-> SubSeq(q, 1, Len(q) - 1)]

\* rx.try_recv(): the oldest command and the rest (main.rs:102)
Recv(q) == [cmd |-> Head(q), rest |-> Tail(q)]

\* the flag PlayerCommand::Pause / Resume passes to pause() (main.rs:115-120)
PauseFlag(type) == type = "Pause"

\* PlayerCommand::Play(media_spec) (main.rs:104-114)
ApplyPlay(ms) ==
  \/ /\ Fails("drop", "hw")
     /\ UNCHANGED <<spec, ioOk, device, hist>>
  \/ /\ Fails("init", "hw")
     /\ devState' = "Setup"
     /\ UNCHANGED <<spec, ioOk, devSpec, received, hist>>
  \/ /\ HwParamsOk(ms)
     /\ devState' = "Prepared"
     /\ devSpec' = ms
     /\ spec' = ms
     /\ ioOk' \in IoResults
     /\ pc' = "wait"
     /\ hist' = [hist EXCEPT !.plays = @ + 1,
                             !.mark = Len(received),
                             !.pmark = produced,
                             !.pause = None]
     /\ UNCHANGED <<fail, received>>

\* mutant: Pause and Resume reconfigure the device as Play does
ApplyPauseAsPlay(flag) == ApplyPlay(CHOOSE ms \in PlaySpecs : TRUE)

\* PlayerCommand::Resume / Pause (main.rs:115-120)
ApplyPause(flag) ==
  /\ UNCHANGED <<spec, ioOk, devSpec, received>>
  /\ \/ /\ Fails("pause", "hw")
        /\ UNCHANGED <<devState, hist>>
     \/ /\ ~PauseValid(devState, flag)
        /\ Fails("pause", "state")
        /\ UNCHANGED <<devState, hist>>
     \/ /\ PauseValid(devState, flag)
        /\ devState' = IF flag THEN "Paused" ELSE "Running"
        /\ hist' = [hist EXCEPT !.pause =
                      IF flag
                      THEN [ring |-> ring.buf, temp |-> temp,
                            rlen |-> Len(received), prep |-> FALSE]
                      ELSE None]
        /\ pc' = "wait"
        /\ UNCHANGED fail

\* main.rs:102-122
Poll ==
  /\ pc = "poll"
  /\ IF rx = <<>>
     THEN /\ pc' = "wait"
          /\ UNCHANGED <<rx, applied, it, spec, ioOk, device, hist, fail>>
     ELSE LET r == Recv(rx)
          IN  /\ rx' = r.rest
              /\ applied' = Append(applied, r.cmd)
              /\ it' = [it EXCEPT !.deq = @ + 1, !.cmd = r.cmd.type]
              /\ IF r.cmd.type = "Play"
                 THEN ApplyPlay(r.cmd.spec)
                 ELSE ApplyPause(PauseFlag(r.cmd.type))
  /\ UNCHANGED <<srcSpec, produced, channel, ring, temp, eof, sent>>

\* main.rs:124
Wait ==
  /\ pc = "wait"
  /\ \/ /\ Fails("wait", "hw")
        /\ UNCHANGED it
     \/ /\ pc' = "check"
        /\ it' = [it EXCEPT !.waited = TRUE]
        /\ UNCHANGED fail
  /\ UNCHANGED <<srcSpec, produced, engine, rx, device, sent, applied, hist>>

\* main.rs:125-127
CheckPrepare ==
  /\ pc = "check"
  /\ IF devState \notin {"Running", "Prepared"}
     THEN \/ /\ Fails("prepare", "hw")
             /\ UNCHANGED <<devState, hist>>
          \/ /\ devState' = "Prepared"
             /\ hist' = [hist EXCEPT !.pause =
                           IF @ # None /\ devState = "Paused"
                           THEN [@ EXCEPT !.prep = TRUE] ELSE @]
             /\ pc' = "flush"
             /\ UNCHANGED fail
     ELSE /\ pc' = "flush"
          /\ UNCHANGED <<devState, hist, fail>>
  /\ UNCHANGED <<srcSpec, produced, engine, rx, devSpec, received, sent,
                 applied, it>>

\* ------------------------------------------------------------- loop body
\* main.rs:129-135: both slices are offered, then wr + wl items are skipped
Flush ==
  /\ pc = "flush"
  /\ IF ring.buf = <<>>
     THEN /\ pc' = "move"
          /\ UNCHANGED <<ring, devState, received, fail>>
     ELSE \E o1 \in WriteIo(RbRight(ring), devState) :
            IF ~o1.ok
            THEN /\ Fails("write", "hw")
                 /\ UNCHANGED <<ring, devState, received>>
            ELSE \E o2 \in WriteIo(RbLeft(ring), o1.st) :
                   /\ received' = received \o o1.acc \o o2.acc
                   /\ devState' = o2.st
                   /\ IF ~o2.ok
                      THEN /\ Fails("write", "hw")
                           /\ UNCHANGED ring
                      ELSE /\ ring' = RbSkip(ring, o1.ret + o2.ret)
                           /\ pc' = "move"
                           /\ UNCHANGED fail
  /\ UNCHANGED <<srcSpec, produced, spec, channel, temp, eof, ioOk, rx, devSpec,
                 sent, applied, it, hist>>

\* mutant: one sample fewer than fits is moved to the ring buffer
WriteToRbShort(vacant, len) ==
  IF Min(vacant, len) > 0 THEN Min(vacant, len) - 1 ELSE 0

\* mutant: nothing is moved to the ring buffer
WriteToRbNone(vacant, len) == 0

\* mutant: the vacancy is not consulted
WriteToRbAll(vacant, len) == len

\* write_to_rb (main.rs:138 and 164)
WriteToRb(vacant, len) == Min(vacant, len)

\* the ring buffer and the staging queue after temp_buf.drain(..write_to_rb)
\* went through prod.push_iter (main.rs:138-140 and 164-166)
Transfer(rb, tb) ==
  LET n == WriteToRb(RbVacant(rb), Len(tb))
  IN  [ring |-> RbPush(rb, SubSeq(tb, 1, Min(n, Len(tb)))),
       temp |-> SubSeq(tb, Min(n, Len(tb)) + 1, Len(tb))]

\* main.rs:137-145
MoveStaging ==
  /\ pc = "move"
  /\ IF temp # <<>>
     THEN /\ ring' = Transfer(ring, temp).ring
          /\ temp' = Transfer(ring, temp).temp
     ELSE UNCHANGED <<ring, temp>>
  /\ pc' = "decide"
  /\ UNCHANGED <<srcSpec, produced, spec, channel, eof, ioOk, rx, device, fail,
                 sent, applied, it, hist>>

\* mutant: a non-empty ring buffer is flushed again in the same iteration
NextStepReflush(ringLen, e) ==
  IF ringLen # 0 THEN "flush" ELSE IF e THEN "drain" ELSE "decode"

\* mutant: the `break` at end of stream is missing
NextStepNoBreak(ringLen, e) == IF ringLen # 0 THEN "poll" ELSE "decode"

\* mutant: the `continue` on a non-empty ring buffer is missing
NextStepNoSkip(ringLen, e) == IF e THEN "drain" ELSE "decode"

\* main.rs:147-154: continue, break, or go on to decode
NextStep(ringLen, e) ==
  IF ringLen # 0 THEN "poll" ELSE IF e THEN "drain" ELSE "decode"

Decide ==
  /\ pc = "decide"
  /\ pc' = NextStep(RbLen(ring), eof)
  /\ it' = IF pc' = "poll" THEN NewIter(it) ELSE it
  /\ UNCHANGED <<srcSpec, produced, engine, rx, device, fail, sent, applied, hist>>

\* Ok(_) of dm.decode(&mut temp_buf) with `frames` new frames (main.rs:157-168)
DecodeOk(frames) ==
  LET n  == frames * srcSpec.channel
      t1 == temp \o Iota(produced + 1, produced + n)
  IN  /\ produced + n <= MaxSamples
      /\ produced' = produced + n
      /\ UNCHANGED <<eof, it>>
      /\ \E o1 \in WriteIo(t1, devState) :
           IF ~o1.ok
           THEN /\ Fails("write", "hw")
                /\ temp' = t1
                /\ UNCHANGED <<ring, devState, received>>
           ELSE \E o2 \in WriteIo(<<>>, o1.st) :
                  /\ received' = received \o o1.acc
                  /\ devState' = o2.st
                  /\ IF ~o2.ok
                     THEN /\ Fails("write", "hw")
                          /\ temp' = t1
                          /\ UNCHANGED ring
                     ELSE IF o1.ret + o2.ret > Len(t1)
                     THEN \* temp_buf.drain(..(wr + wl)) past the end panics
                          /\ pc' = "panicked"
                          /\ temp' = t1
                          /\ UNCHANGED <<ring, fail>>
                     ELSE LET t2 == SubSeq(t1, o1.ret + o2.ret + 1, Len(t1))
                          IN  /\ ring' = Transfer(ring, t2).ring
                              /\ temp' = Transfer(ring, t2).temp
                              /\ pc' = "start"
                              /\ UNCHANGED fail

\* mutant: a skipped packet is taken for the end of the stream
OnIgnoredEof(e) == TRUE

\* eof after the arm Err(DecoderError::Ignored) => { } (main.rs:173)
OnIgnored(e) == e

\* history of a call of decode(): whether it returned Ignored
DecodeCalled(ign) ==
  hist' = [hist EXCEPT !.dAfter = @ \/ hist.fatal, !.ign = ign]

\* main.rs:156-177; DsdReader::decode is todo!() (decoder.rs:332-334)
Decode ==
  /\ pc = "decode"
  /\ IF srcSpec.mode = "DSD"
     THEN /\ pc' = "panicked"
          /\ DecodeCalled(FALSE)
          /\ UNCHANGED <<produced, ring, temp, eof, devState, received, fail, it>>
     ELSE \/ /\ \E frames \in 0..MaxChunk : DecodeOk(frames)
             /\ DecodeCalled(FALSE)
          \/ \* Err(DecoderError::EOF)
             /\ eof' = TRUE
             /\ pc' = "poll"
             /\ it' = NewIter(it)
             /\ DecodeCalled(FALSE)
             /\ UNCHANGED <<produced, ring, temp, devState, received, fail>>
          \/ \* Err(DecoderError::Ignored)
             /\ eof' = OnIgnored(eof)
             /\ pc' = "start"
             /\ DecodeCalled(TRUE)
             /\ UNCHANGED <<produced, ring, temp, devState, received, fail, it>>
  /\ UNCHANGED <<srcSpec, spec, channel, ioOk, rx, devSpec, sent, applied>>

\* Err(_) of dm.decode: DecoderError::Raw (main.rs:174-176)
DecodeRaw ==
  /\ pc = "decode"
  /\ srcSpec.mode # "DSD"
  /\ hist' = [hist EXCEPT !.dAfter = @ \/ hist.fatal, !.fatal = TRUE,
                          !.ign = FALSE]
  /\ pc' = "poll"
  /\ it' = NewIter(it)
  /\ UNCHANGED <<srcSpec, produced, engine, rx, device, fail, sent, applied>>

\* main.rs:179-181
StartDev ==
  /\ pc = "start"
  /\ IF devState \notin {"Running", "Paused"}
     THEN \/ /\ Fails("start", "hw")
             /\ UNCHANGED <<devState, it>>
          \/ /\ ~StartValid(devState)
             /\ Fails("start", "state")
             /\ UNCHANGED <<devState, it>>
          \/ /\ StartValid(devState)
             /\ devState' = "Running"
             /\ pc' = "poll"
             /\ it' = NewIter(it)
             /\ UNCHANGED fail
     ELSE /\ pc' = "poll"
          /\ it' = NewIter(it)
          /\ UNCHANGED <<devState, fail>>
  /\ UNCHANGED <<srcSpec, produced, engine, rx, devSpec, received, sent,
                 applied, hist>>

\* mutant: player() returns without draining the device
DrainMissing ==
  /\ pc = "drain"
  /\ pc' = "done"
  /\ UNCHANGED <<srcSpec, produced, engine, rx, device, fail, sent, applied, it,
                 hist>>

\* main.rs:184-185
Drain ==
  /\ pc = "drain"
  /\ hist' = [hist EXCEPT !.drains = @ + 1, !.rAtDrain = Len(received)]
  /\ \/ /\ Fails("drain", "hw")
        /\ UNCHANGED devState
     \/ /\ devState' = "Setup"
        /\ pc' = "done"
        /\ UNCHANGED fail
  /\ UNCHANGED <<srcSpec, produced, engine, rx, devSpec, received, sent,
                 applied, it>>

\* ------------------------------------------------------------ environment
\* the controller holding tx sends a command (main.rs:38)
Send ==
  /\ pc \notin Stopped
  /\ Len(sent) < MaxCmds
  /\ \E c \in Commands :
       /\ rx' = Append(rx, c)
       /\ sent' = Append(sent, c)
  /\ UNCHANGED <<pc, srcSpec, produced, engine, device, fail, applied, it, hist>>

\* the hardware buffer runs empty while the engine is busy
DeviceXRun ==
  /\ pc \in LoopPcs
  /\ devState = "Running"
  /\ devState' = "XRun"
  /\ UNCHANGED <<pc, srcSpec, produced, engine, rx, devSpec, received, fail,
                 sent, applied, it, hist>>

Next ==
  \/ OpenSource
  \/ OpenDevice
  \/ Poll
  \/ Wait
  \/ CheckPrepare
  \/ Flush
  \/ MoveStaging
  \/ Decide
  \/ Decode
  \/ DecodeRaw
  \/ StartDev
  \/ Drain
  \/ Send
  \/ DeviceXRun

Spec == Init /\ [][Next]_vars

\* the steps of player(): the thread spawn_blocking gave it (main.rs:42)
\* keeps running, wait() returns after at most 32 ms (main.rs:124)
Engine ==
  \/ OpenSource
  \/ OpenDevice
  \/ Poll
  \/ Wait
  \/ CheckPrepare
  \/ Flush
  \/ MoveStaging
  \/ Decide
  \/ Decode
  \/ DecodeRaw
  \/ StartDev
  \/ Drain

LiveSpec == Init /\ [][Next]_vars /\ WF_vars(Engine)

\* ------------------------------------------------------------ properties
\* every sample decode() has produced, in order
Decoded == Iota(1, produced)

\* C1: FIFO preservation.  While no Play command has been applied, what the
\* device has accepted is a prefix of what the decoder has produced, and when
\* player() returns Ok it is all of it.
C1_Fifo ==
  hist.plays = 0 =>
    /\ IsPrefix(received, Decoded)
    /\ (pc = "done" => received = Decoded)

\* C2: SwitchSource discard.  After a Play command was applied the device
\* accepts no sample that was decoded before it: the samples buffered at that
\* moment are never written, and what the device receives next is newer.
C2_SwitchDiscard ==
  hist.plays > 0 =>
    \A i \in (hist.mark + 1)..Len(received) : received[i] > hist.pmark

\* C3: Drain completeness.  When the decoder has reported end of stream
\* nothing it produced is left in the ring buffer or the staging queue, the
\* loop is left for drain() with both empty, drain() is called once, after
\* the last write, and player() has returned once it was called.
C3_DrainComplete ==
  /\ (eof => ring.buf = <<>> /\ temp = <<>>)
  /\ (pc \in {"drain", "done"} => eof /\ ring.buf = <<>> /\ temp = <<>>)
  /\ hist.drains <= 1
  /\ (pc = "done" => hist.drains = 1)
  /\ (hist.drains > 0 => pc \in {"done", "failed"} /\ Len(received) = hist.rAtDrain)

C3_Witness ==
  pc = "done" /\ eof /\ hist.drains = 1 /\ Len(received) = MaxSamples

\* C4: Capacity invariant.  The ring buffer never holds more than RingCap
\* samples; a transfer from the staging queue moves min(vacancy, staging
\* length) samples, and the samples of both together are the same before and
\* after it (after a decode: the tail of what was decoded and not written).
C4_Transfer ==
  /\ (pc = "move" /\ pc' = "decide" =>
        /\ Len(temp) - Len(temp') = Min(RbVacant(ring), Len(temp))
        /\ ring'.buf \o temp' = ring.buf \o temp)
  /\ (pc = "decode" /\ pc' = "start" =>
        LET rest == ring'.buf \o temp'
        IN  /\ Len(ring'.buf) - Len(ring.buf) <= RbVacant(ring)
            /\ (temp' # <<>> => Len(ring'.buf) = RingCap)
            /\ rest = SubSeq(Decoded', produced' - Len(rest) + 1, produced'))

C4_Capacity == [](RbLen(ring) <= RingCap) /\ [][C4_Transfer]_vars

C4_Witness == pc = "start" /\ temp # <<>> /\ RbLen(ring) = RingCap

\* C5: Backpressure.  decode() is called only in an iteration whose wait()
\* has returned and whose ring buffer is empty after the flush and the move.
C5_Backpressure == pc = "decode" => RbLen(ring) = 0 /\ it.waited

C5_Witness ==
  pc = "decide" /\ RbLen(ring) > 0 /\ it.waited /\ ~eof /\ produced < MaxSamples

\* C6: Fatal decode error.  Once decode() has returned DecoderError::Raw the
\* engine has left the loop with that error and decode() is not called again.
C6_FatalStops ==
  hist.fatal =>
    /\ pc = "failed"
    /\ fail = [op |-> "decode", why |-> "raw"]
    /\ ~hist.dAfter

\* C7: Pause idempotence.  When Pause is dequeued in two consecutive
\* iterations, the second one is not refused and leaves the device Paused.
C7_PauseIdempotent ==
  it.cmd = "Pause" /\ it.prev = "Pause" =>
    /\ fail # [op |-> "pause", why |-> "state"]
    /\ (pc = "wait" => devState = "Paused")

\* C8: Pause/Resume leave buffered data untouched.  From the Pause to the
\* Resume that follows it the device is not re-prepared while Paused, and when
\* the Resume is dequeued the ring buffer, the staging queue and what the
\* device has accepted are what they were when the Pause was applied.
C8_PauseKeepsBuffers ==
  hist.pause # None =>
    /\ ~hist.pause.prep
    /\ (pc = "poll" /\ rx # <<>> /\ Head(rx).type = "Resume" =>
          /\ ring.buf = hist.pause.ring
          /\ temp = hist.pause.temp
          /\ Len(received) = hist.pause.rlen)

\* C9: Command delivery.  The commands dequeued and those still queued are
\* together the commands submitted, in order; at most one is dequeued in an
\* iteration; a command is dequeued at the poll, before the wait, and applying
\* it changes neither the buffers nor what the device has accepted.
C9_Dequeue ==
  applied' # applied =>
    /\ pc = "poll" /\ ~it.waited /\ rx # <<>>
    /\ applied' = Append(applied, Head(rx))
    /\ rx' = Tail(rx)
    /\ pc' \in {"wait", "failed"}
    /\ ring' = ring /\ temp' = temp /\ received' = received

C9_Delivery ==
  /\ [](sent = applied \o rx /\ it.deq <= 1)
  /\ [](pc \in {"check", "flush", "move", "decide", "decode", "start"} => it.waited)
  /\ [][C9_Dequeue]_vars

C9_Witness ==
  /\ Len(applied) = 2
  /\ applied = sent
  /\ applied[1] # applied[2]
  /\ pc = "wait"

\* C10: Unresolved spec is rejected.  With spec() None the device is never
\* opened, configured or written and the loop is never entered: player()
\* returns the startup error.
C10_UnresolvedRejected ==
  srcSpec = None =>
    /\ ~hist.touched
    /\ devState = "Closed" /\ devSpec = None /\ received = <<>>
    /\ pc \in {"open", "failed"}
    /\ (pc = "failed" => fail.op \in {"open", "spec"})

C10_Witness ==
  srcSpec = None /\ pc = "failed" /\ fail = [op |-> "spec", why |-> "unknown codec"]

\* C11: Invalid spec is rejected.  With a resolved spec of 0 channels or rate
\* 0 the device is never opened, configured or written and the loop is never
\* entered: player() returns at startup.
C11_InvalidRejected ==
  (srcSpec # None /\ (srcSpec.channel = 0 \/ srcSpec.sample_rate = 0)) =>
    /\ ~hist.touched
    /\ devState = "Closed" /\ devSpec = None /\ received = <<>>
    /\ pc \notin LoopPcs

\* C12: Hardware errors are surfaced immediately.  An error is recorded
\* exactly when player() has returned it, and the loop never runs with a
\* typed I/O handle that could not be obtained (whose writes would answer 0).
C12_HwErrorSurfaced ==
  /\ (fail # None <=> pc = "failed")
  /\ (pc \in LoopPcs \cup {"drain", "done"} => ioOk)

\* C13: Frame/sample unit consistency.  Every step that writes to the device
\* removes from the ring buffer or the staging queue as many samples as the
\* device accepted, also after a Play with another channel count.
C13_Step ==
  /\ (pc = "flush" /\ pc' = "move" =>
        Len(ring.buf) - Len(ring'.buf) = Len(received') - Len(received))
  /\ (pc = "decode" /\ pc' \in {"start", "panicked"} /\ srcSpec.mode = "PCM" =>
        (produced' - produced) - (Len(ring'.buf) + Len(temp')) =
          Len(received') - Len(received))

C13_Units == [][C13_Step]_vars

\* C15: Format consistency across a switch.  Whatever the device accepts
\* after it was (re)configured comes from a source whose spec is the spec the
\* device is configured with.
C15_FormatConsistent ==
  Len(received) > hist.mark => devSpec = srcSpec

\* the steps of one iteration in the order of main.rs:101-182
StepOrder ==
  <<"poll", "wait", "check", "flush", "move", "decide", "decode", "start">>

Rank(p) == CHOOSE i \in 1..Len(StepOrder) : StepOrder[i] = p

\* C16: Fixed step order.  Inside the loop every step is followed by the next
\* one of poll, wait, state check, flush, move, (continue/break test,) decode,
\* start, or by the poll of a new iteration, so each happens at most once in
\* an iteration; samples are decoded only when the flush has emptied the
\* ring buffer, so they are offered after those the ring buffer held.
C16_Step ==
  /\ (pc \in LoopPcs /\ pc' \in LoopPcs /\ pc' # pc =>
        \/ Rank(pc') = Rank(pc) + 1
        \/ pc' = "poll" /\ it' = NewIter(it))
  /\ (pc' \in LoopPcs /\ pc \notin LoopPcs => pc = "device" /\ pc' = "poll")
  /\ (pc = "decode" /\ produced' > produced => ring.buf = <<>> /\ it.waited)

C16_StepOrder == [][C16_Step]_vars

C16_Witness ==
  /\ pc = "start" /\ it.cmd = "Pause" /\ it.waited
  /\ Len(received) > 0 /\ ring.buf # <<>>

\* C17: start() only from Prepared.  Whenever the engine calls start() the
\* device is Prepared, whatever the device did by itself before.
C17_Step ==
  (pc = "start" /\ pc' # pc /\ devState \notin {"Running", "Paused"}) =>
    devState = "Prepared"

C17_StartFromPrepared == [][C17_Step]_vars

\* C18: Start at iteration end.  An iteration that goes back to the command
\* poll with the device neither Running nor Paused does so through start().
C18_Step ==
  (pc \in LoopPcs /\ pc # "poll" /\ pc' = "poll"
     /\ devState \notin {"Running", "Paused"}) => pc = "start"

C18_StartAtEnd == [][C18_Step]_vars

\* C19: Recoverable decode error.  A decode() that returns Ignored changes
\* neither the ring buffer, the staging queue nor eof and returns no error;
\* until decode() is called again the buffers stay empty, the loop is not
\* left for drain(), and the next continue/break test goes on to decode().
C19_Step ==
  /\ (pc = "decode" /\ pc' # pc /\ hist'.ign =>
        /\ ring' = ring /\ temp' = temp /\ eof' = eof
        /\ fail' = fail /\ pc' = "start")
  /\ (hist.ign /\ pc = "decide" /\ pc' # pc => pc' = "decode")

C19_Recoverable ==
  /\ [](hist.ign =>
          /\ ring.buf = <<>> /\ temp = <<>> /\ ~eof
          /\ pc \notin {"drain", "done", "panicked"}
          /\ (pc = "failed" => fail.op # "decode"))
  /\ [][C19_Step]_vars

C19_Witness == hist.ign /\ pc = "decode" /\ produced > 0

\* C20: decode() is called only with the ring buffer and the staging queue
\* both empty, so what they hold after the call are samples of that call only.
C20_Step ==
  pc = "decode" /\ pc' = "start" =>
    /\ \A i \in 1..Len(ring'.buf) : ring'.buf[i] > produced
    /\ \A i \in 1..Len(temp') : temp'[i] > produced

C20_DecodeWhenEmpty ==
  /\ [](pc = "decode" => ring.buf = <<>> /\ temp = <<>>)
  /\ [][C20_Step]_vars

C20_Witness ==
  pc = "decode" /\ produced > 0 /\ Len(received) = produced /\ it.prev = "none"

\* C14: Termination.  For a PCM file whose decoder comes to return EOF when
\* it is called again and again, with no error returned, a usable I/O handle,
\* and a device that does not go on being offered non-empty data without ever
\* accepting a frame, player() comes to return Ok after drain().
C14_Termination ==
  (/\ srcSpec \in {s \in SourceSpecs : s.mode = "PCM"}
   /\ [](pc # "failed")
   /\ [](pc \in LoopPcs => ioOk)
   /\ ([]<>(pc = "decode") => <>eof)
   /\ ([]<>(pc = "flush" /\ ring.buf # <<>>) =>
         []<><<Len(received') > Len(received)>>_vars))
  => <>(pc = "done")

\* C21 as stated: at the start of an iteration and whenever the loop is left,
\* by break, by an error or by a panic, a non-empty staging queue implies a
\* full ring buffer.
C21_StagingImpliesFull ==
  pc \in {"poll", "drain", "done", "failed", "panicked"} /\ temp # <<>> =>
    RbVacant(ring) = 0

\* C21: at the start of every iteration and when the loop is left by break,
\* a non-empty staging queue implies a full ring buffer.
C21_StagingImpliesFullAtStart ==
  pc \in {"poll", "drain", "done"} /\ temp # <<>> => RbVacant(ring) = 0

C21_Witness == pc = "poll" /\ temp # <<>> /\ RbVacant(ring) = 0 /\ ~it.waited

\* C22: eof is monotone.  Once set it stays set, whatever command is applied;
\* the buffers are and stay empty, decode() and start() are not reached again,
\* and no further iteration is begun: the iteration that follows the EOF
\* leaves the loop, by break or with an error.
C22_Step ==
  eof =>
    /\ eof'
    /\ ring' = ring /\ temp' = temp /\ produced' = produced
    /\ (pc' # pc => pc' # "poll")
    /\ (pc = "decide" /\ pc' # pc => pc' = "drain")

C22_EofMonotone ==
  /\ [](eof => /\ ring.buf = <<>> /\ temp = <<>>
               /\ pc \notin {"decode", "start", "panicked"}
               /\ it.deq <= 1)
  /\ [][C22_Step]_vars

C22_Witness == eof /\ pc = "drain" /\ it.cmd = "Play" /\ produced > 0

\* C23: Applying a command changes neither the ring buffer, the staging
\* queue, eof, the open source nor what the device has accepted; Pause and
\* Resume change the device state only, Play also the device's configuration,
\* spec and the I/O handles.
C23_Step ==
  applied' # applied =>
    /\ ring' = ring /\ temp' = temp /\ eof' = eof
    /\ srcSpec' = srcSpec /\ produced' = produced /\ channel' = channel
    /\ received' = received
    /\ (applied'[Len(applied')].type # "Play" =>
          spec' = spec /\ ioOk' = ioOk /\ devSpec' = devSpec)

C23_CommandFrame == [][C23_Step]_vars

C23_Witness ==
  /\ pc = "wait" /\ it.cmd = "Play" /\ ~it.waited
  /\ RbLen(ring) = RingCap /\ devSpec # srcSpec /\ devSpec = spec

====
